---- MODULE Spec2Model ----
(***************************************************************************)
(* Backup Utility (src/backup-utility-2.py).                               *)
(*                                                                         *)
(* BackupWorker is a QThread that mirrors a list of files and folders into *)
(* a destination folder; BackupUtility is the window whose Backup button   *)
(* constructs and starts a worker.  A path is a sequence of components,    *)
(* the filesystem is a small fixed source tree plus a mutable destination  *)
(* tree, and every worker thread advances one filesystem operation group   *)
(* at a time, interleaved with the other workers and with the window.      *)
(* What the window displays (status label, progress bar, message boxes)    *)
(* and the log file are not part of the state: the signals a worker emits  *)
(* are kept in the worker's events, in emission order.                     *)
(***************************************************************************)
EXTENDS Integers, Sequences, FiniteSets, TLC

\* ------------------------------------------------------------------ bounds
MaxRuns == 2        \* workers the window creates during one behaviour
MaxItems == 2       \* length of the persisted selection list
MaxFaults == 1      \* filesystem faults present in one behaviour
MaxPre == 1         \* files already present under the destination

Workers == 1..MaxRuns

\* ------------------------------------------------------- the source tree
\* x/f and y/f are two regular files with the same basename; d1 is a folder
\* holding a and sub/b; d0 is a folder holding no file; gone names nothing.
SrcFiles == {<<"x", "f">>, <<"y", "f">>, <<"d1", "a">>, <<"d1", "sub", "b">>}
SrcDirs == {<<"d1">>, <<"d1", "sub">>, <<"d0">>}
ItemUniverse == {<<"x", "f">>, <<"y", "f">>, <<"d1">>, <<"d0">>, <<"gone">>}

Mtimes == {1, 2}
Sizes == {1, 2}

\* os.stat of a source file: (modification time, size).  Sources are never
\* written by the program.
SrcMeta(p) ==
  CASE p = <<"x", "f">> -> [mtime |-> 1, size |-> 1]
    [] p = <<"y", "f">> -> [mtime |-> 2, size |-> 1]
    [] p = <<"d1", "a">> -> [mtime |-> 1, size |-> 2]
    [] OTHER -> [mtime |-> 2, size |-> 2]

\* os.walk(top), top-down: one (root, files) entry per directory.
walk(top) ==
  CASE top = <<"d1">> -> << [root |-> <<"d1">>, files |-> <<"a">>],
                            [root |-> <<"d1", "sub">>, files |-> <<"b">>] >>
    [] top = <<"d0">> -> << [root |-> <<"d0">>, files |-> <<>>] >>
    [] OTHER -> <<>>

\* ------------------------------------------------------------ os.path
basename(p) == IF p = <<>> THEN <<>> ELSE <<p[Len(p)]>>
dirname(p) == IF p = <<>> THEN <<>> ELSE SubSeq(p, 1, Len(p) - 1)
join(a, b) == a \o b
relpath(p, start) ==
  IF p = start THEN <<".">> ELSE SubSeq(p, Len(start) + 1, Len(p))
\* Path resolution by the filesystem: a "." component names the same directory.
IsNotDot(c) == c # "."
Resolve(p) == SelectSeq(p, IsNotDot)

\* ------------------------------------------------------- the destination
DestRoot == <<"D">>
DestFilePaths == {<<"D", "f">>, <<"D", "d1", "a">>, <<"D", "d1", "sub", "b">>}
NoFile == [mtime |-> 0, size |-> 0]
Metas == [mtime : Mtimes, size : Sizes]

\* A fault is a property of the filesystem for the whole behaviour:
\*   copy  - the source cannot be read or its destination cannot be written,
\*           so shutil.copy2 raises;
\*   stat  - a directory entry that cannot be stat'ed (a dangling link):
\*           os.walk lists it, os.path.getmtime and shutil.copy2 raise;
\*   mkdir - the destination directory cannot be created, os.makedirs raises.
FaultUniverse ==
  {[kind |-> "copy", path |-> p] : p \in {<<"x", "f">>, <<"y", "f">>, <<"d1", "a">>}}
    \cup {[kind |-> "stat", path |-> <<"d1", "a">>]}
    \cup {[kind |-> "mkdir", path |-> p] : p \in {<<"D", "d1">>, <<"D", "d1", "sub">>}}

VARIABLES
  list_widget,          \* BackupUtility.list_widget: the selected paths, in order
  destination_folder,   \* BackupUtility.destination_folder (<<>> is '')
  backup_worker,        \* BackupUtility.backup_worker: index of the last worker, 0 if none
  worker,               \* the BackupWorker objects, by creation order
  dstFiles,             \* destination files: path -> metadata, NoFile if absent
  dstDirs,              \* destination directories that exist (besides the root)
  faults                \* the filesystem faults of this behaviour

vars == <<list_widget, destination_folder, backup_worker, worker, dstFiles, dstDirs, faults>>

\* ------------------------------------------------------ filesystem calls
HasFault(kind, p) == [kind |-> kind, path |-> p] \in faults

\* os.path.exists on a destination path.
exists(p) ==
  LET r == Resolve(p)
  IN  \/ r = DestRoot
      \/ r \in dstDirs
      \/ (r \in DestFilePaths /\ dstFiles[r] # NoFile)

\* os.path.isfile / os.path.isdir on a selected item (both follow links, so
\* an entry that cannot be stat'ed is neither).
isfile(p) == p \in SrcFiles /\ ~HasFault("stat", p)
isdir(p) == p \in SrcDirs

\* os.makedirs(p): the directories it would create, root first, and whether it
\* raises; the directories above the failing one have been created by then.
Prefixes(r) == {SubSeq(r, 1, k) : k \in 2..Len(r)}
MakedirsFailing(p) ==
  {q \in Prefixes(Resolve(p)) : q \notin dstDirs /\ HasFault("mkdir", q)}
MakedirsRaises(p) == MakedirsFailing(p) # {}
MakedirsCreated(p) ==
  {q \in Prefixes(Resolve(p)) : \A f \in MakedirsFailing(p) : Len(q) < Len(f)}

\* shutil.copy2(src, dst): raises when the source cannot be opened, the
\* destination cannot be written or its directory is missing; otherwise the
\* destination gets the source's contents (size) and modification time.
Copy2Raises(src, dst) ==
  \/ HasFault("copy", src)
  \/ HasFault("stat", src)
  \/ ~exists(dirname(Resolve(dst)))
\* shutil.copy in place of shutil.copy2: the destination keeps the time of
\* the copy, later than any source's modification time.
Copy2_WithoutMetadata(files, src, dst) ==
  [files EXCEPT ![Resolve(dst)] = [mtime |-> 3, size |-> SrcMeta(src).size]]
Copy2(files, src, dst) == [files EXCEPT ![Resolve(dst)] = SrcMeta(src)]

\* ---------------------------------------------------------- BackupWorker
NoQuery == [src |-> <<>>, dstExists |-> FALSE, dstMeta |-> NoFile, result |-> "none"]
NoCounts == <<0, 0, 0>>

\* A BackupWorker that has not been constructed yet.  Besides the object's
\* fields and the position of run, it records what the thread has emitted
\* (events), whether a division by zero was raised (zerodiv), how many times
\* shutil.copy2 raised (copy_raised) and which workers had completed when it
\* was started (prior).
IdleWorker ==
  [pc |-> "idle", items |-> <<>>, destination_folder |-> <<>>,
   total_files |-> 0, processed_files |-> 0,
   idx |-> 0, walkPos |-> 0, num_files |-> 0, num_copied |-> 0, num_skipped |-> 0,
   query |-> NoQuery, events |-> <<>>, zerodiv |-> FALSE, copy_raised |-> 0,
   prior |-> {}]

\* BackupWorker.__init__ followed by start(): run() is about to execute.
NewWorker(items, dest, finished) ==
  [IdleWorker EXCEPT !.pc = "calc", !.items = items, !.destination_folder = dest,
                     !.prior = finished]

State(w) ==
  CASE worker[w].pc = "idle" -> "Idle"
    [] worker[w].pc = "done" -> "Completed"
    [] worker[w].pc = "crashed" -> "Crashed"
    [] OTHER -> "Running"

RECURSIVE SumFiles(_)
SumFiles(entries) ==
  IF entries = <<>> THEN 0 ELSE Len(Head(entries).files) + SumFiles(Tail(entries))

RECURSIVE calculate_total_files(_)
calculate_total_files(items) ==
  IF items = <<>> THEN 0
  ELSE (IF isfile(Head(items)) THEN 1
        ELSE IF isdir(Head(items)) THEN SumFiles(walk(Head(items)))
        ELSE 0) + calculate_total_files(Tail(items))

\* The (root, file) pairs in the order the two nested loops of backup_folder
\* visit them.
RECURSIVE FilesOf(_, _)
FilesOf(root, files) ==
  IF files = <<>> THEN <<>>
  ELSE <<[root |-> root, file |-> Head(files)]>> \o FilesOf(root, Tail(files))

RECURSIVE WalkFiles(_)
WalkFiles(entries) ==
  IF entries = <<>> THEN <<>>
  ELSE FilesOf(Head(entries).root, Head(entries).files) \o WalkFiles(Tail(entries))

\* int((processed_files / total_files) * 100).  For the totals reached here the
\* floating-point value truncates to the exact floor.
Percent(processed, total) == (processed * 100) \div total

\* update_progress: the counter is incremented before the division, so it
\* stays incremented when the division raises ZeroDivisionError.
update_progress(self, kind, target, counts) ==
  LET p == self.processed_files + 1
  IN  IF self.total_files = 0
      THEN [self |-> [self EXCEPT !.processed_files = p, !.zerodiv = TRUE],
            raised |-> TRUE]
      ELSE [self |-> [self EXCEPT !.processed_files = p,
                        !.events = Append(@, [kind |-> kind, target |-> target,
                                              percent |-> Percent(p, self.total_files),
                                              counts |-> counts])],
            raised |-> FALSE]

\* is_same_file comparing modification times only.
is_same_file_MtimeOnly(src, dst) ==
  IF ~exists(dst) THEN "differ"
  ELSE IF HasFault("stat", src) THEN "raise"
  ELSE IF SrcMeta(src).mtime = dstFiles[Resolve(dst)].mtime THEN "same"
  ELSE "differ"

\* is_same_file(src, dst): "same", "differ", or "raise" when a stat raises.
is_same_file(src, dst) ==
  IF ~exists(dst) THEN "differ"
  ELSE IF HasFault("stat", src) THEN "raise"
  ELSE IF /\ SrcMeta(src).mtime = dstFiles[Resolve(dst)].mtime
          /\ SrcMeta(src).size = dstFiles[Resolve(dst)].size
       THEN "same"
       ELSE "differ"

\* What is_same_file read and answered, kept until the caller has acted on it.
QueryOf(src, dst) ==
  [src |-> src, dstExists |-> exists(dst),
   dstMeta |-> IF exists(dst) THEN dstFiles[Resolve(dst)] ELSE NoFile,
   result |-> is_same_file(src, dst)]

\* Leaving backup_file / backup_folder: the loop of run moves to the next item.
NextItem(self) ==
  [self EXCEPT !.pc = "item", !.idx = @ + 1, !.walkPos = 0, !.num_files = 0,
               !.num_copied = 0, !.num_skipped = 0, !.query = NoQuery]

\* An exception that leaves run(): the thread ends without emitting completed.
Crash(self) == [self EXCEPT !.pc = "crashed", !.query = NoQuery]

\* backup_file without its except clause: the exception leaves run.
FileExcept_Propagates(self, file_path) == Crash(self)

\* backup_file's except clause (lines 61-63).
FileExcept(self, file_path) ==
  LET r == update_progress(self, "SkippedError", file_path, NoCounts)
  IN  IF r.raised THEN Crash(r.self) ELSE NextItem(r.self)

\* backup_folder's outer except clause (lines 111-113).
FolderExcept(self, folder_path) ==
  LET r == update_progress(self, "SkippedFolder", folder_path, NoCounts)
  IN  IF r.raised THEN Crash(r.self) ELSE NextItem(r.self)

CurrentItem(self) == self.items[self.idx]

\* ------------------------------------------------------------------ Init
\* The state after BackupUtility.__init__: load_data has filled the list and
\* the destination from backup_data.json; no worker exists.
RECURSIVE SeqsUpTo(_)
SeqsUpTo(n) ==
  IF n = 0 THEN {<<>>}
  ELSE SeqsUpTo(n - 1) \cup {Append(q, i) : q \in {r \in SeqsUpTo(n - 1) : Len(r) = n - 1},
                                             i \in ItemUniverse}

Present(files) == {p \in DestFilePaths : files[p] # NoFile}

RECURSIVE Ancestors(_)
Ancestors(ps) ==
  IF ps = {} THEN {}
  ELSE LET p == CHOOSE q \in ps : TRUE
       IN  {SubSeq(p, 1, k) : k \in 2..(Len(p) - 1)} \cup Ancestors(ps \ {p})

Init ==
  /\ list_widget \in SeqsUpTo(MaxItems)
  /\ destination_folder \in {<<>>, DestRoot}
  /\ backup_worker = 0
  /\ worker = [w \in Workers |-> IdleWorker]
  /\ faults \in {F \in SUBSET FaultUniverse : Cardinality(F) <= MaxFaults}
  /\ dstFiles \in {f \in [DestFilePaths -> Metas \cup {NoFile}] :
                     Cardinality(Present(f)) <= MaxPre}
  /\ dstDirs = Ancestors(Present(dstFiles))

\* ---------------------------------------------------------- the window
\* start_backup: the Backup button.  Both early returns only show a warning.
start_backup ==
  /\ backup_worker < MaxRuns
  /\ IF destination_folder = <<>> \/ list_widget = <<>>
     THEN UNCHANGED <<backup_worker, worker>>
     ELSE /\ backup_worker' = backup_worker + 1
          /\ worker' = [worker EXCEPT ![backup_worker + 1] =
                          NewWorker(list_widget, destination_folder,
                                    {v \in Workers : worker[v].pc = "done"})]
  /\ UNCHANGED <<list_widget, destination_folder, dstFiles, dstDirs, faults>>

\* ------------------------------------------------------ the worker thread
UNCHANGED_UI == UNCHANGED <<list_widget, destination_folder, backup_worker, faults>>

\* run, line 28.
RunCalculate(w) ==
  /\ worker[w].pc = "calc"
  /\ worker' = [worker EXCEPT ![w] =
                  [worker[w] EXCEPT !.total_files = calculate_total_files(worker[w].items),
                                    !.idx = 1, !.pc = "item"]]
  /\ UNCHANGED <<dstFiles, dstDirs>>
  /\ UNCHANGED_UI

\* run, line 34: the loop is over.
RunCompleted(w) ==
  /\ worker[w].pc = "item"
  /\ worker[w].idx > Len(worker[w].items)
  /\ worker' = [worker EXCEPT ![w] =
                  [worker[w] EXCEPT !.pc = "done",
                            !.events = Append(@, [kind |-> "Completed", target |-> <<>>,
                                                  percent |-> 0, counts |-> NoCounts])]]
  /\ UNCHANGED <<dstFiles, dstDirs>>
  /\ UNCHANGED_UI

\* run, lines 30-33 for an item that is neither a file nor a directory: the
\* loop body does nothing.
RunSkipItem(w) ==
  /\ worker[w].pc = "item"
  /\ worker[w].idx <= Len(worker[w].items)
  /\ ~isfile(CurrentItem(worker[w]))
  /\ ~isdir(CurrentItem(worker[w]))
  /\ worker' = [worker EXCEPT ![w] = NextItem(worker[w])]
  /\ UNCHANGED <<dstFiles, dstDirs>>
  /\ UNCHANGED_UI

\* backup_file, lines 52-54: the destination path and the is_same_file query.
BackupFileQuery(w) ==
  LET self == worker[w]
      file_path == CurrentItem(self)
      destination_file_path == join(self.destination_folder, basename(file_path))
      q == QueryOf(file_path, destination_file_path)
  IN  /\ self.pc = "item"
      /\ self.idx <= Len(self.items)
      /\ isfile(file_path)
      /\ worker' = [worker EXCEPT ![w] =
                      IF q.result = "raise" THEN FileExcept(self, file_path)
                      ELSE [self EXCEPT !.pc = "file_copy", !.query = q]]
      /\ UNCHANGED <<dstFiles, dstDirs>>
      /\ UNCHANGED_UI

\* backup_file, lines 55-63: copy or skip, report, and the except clause.
BackupFileCopy(w) ==
  LET self == worker[w]
      file_path == CurrentItem(self)
      destination_file_path == join(self.destination_folder, basename(file_path))
      copying == self.query.result = "differ"
      copied == copying /\ ~Copy2Raises(file_path, destination_file_path)
      r == update_progress(self, IF copying THEN "Copied" ELSE "SkippedNoChanges",
                           file_path, NoCounts)
  IN  /\ self.pc = "file_copy"
      /\ dstFiles' = IF copied THEN Copy2(dstFiles, file_path, destination_file_path)
                     ELSE dstFiles
      /\ worker' = [worker EXCEPT ![w] =
                      IF copying /\ ~copied
                      THEN FileExcept([self EXCEPT !.copy_raised = @ + 1], file_path)
                      ELSE IF r.raised THEN FileExcept(r.self, file_path)
                      ELSE NextItem(r.self)]
      /\ UNCHANGED dstDirs
      /\ UNCHANGED_UI

\* backup_folder, lines 71-80: create the mirrored root folder.
BackupFolderEnter(w) ==
  LET self == worker[w]
      folder_path == CurrentItem(self)
      destination_path == join(self.destination_folder, basename(folder_path))
      making == ~exists(destination_path)
  IN  /\ self.pc = "item"
      /\ self.idx <= Len(self.items)
      /\ ~isfile(folder_path)
      /\ isdir(folder_path)
      /\ dstDirs' = IF making THEN dstDirs \cup MakedirsCreated(destination_path)
                    ELSE dstDirs
      /\ worker' = [worker EXCEPT ![w] =
                      IF making /\ MakedirsRaises(destination_path)
                      THEN FolderExcept(self, folder_path)
                      ELSE [self EXCEPT !.pc = "walk", !.walkPos = 1]]
      /\ UNCHANGED dstFiles
      /\ UNCHANGED_UI

\* The file the walk of backup_folder is at, and where it goes (lines 85-89).
WalkEntry(self) == WalkFiles(walk(CurrentItem(self)))[self.walkPos]
WalkFilePath(self) == join(WalkEntry(self).root, <<WalkEntry(self).file>>)
FolderDestinationFilePath(dest, folder_path, root, file) ==
  LET destination_path == join(dest, basename(folder_path))
      relative_path == relpath(root, folder_path)
  IN  join(join(destination_path, relative_path), <<file>>)
WalkDestinationFilePath(self) ==
  FolderDestinationFilePath(self.destination_folder, CurrentItem(self),
                            WalkEntry(self).root, WalkEntry(self).file)

\* backup_folder, lines 84-91: the next file of the walk and its destination
\* directory.
BackupFolderMakeDir(w) ==
  LET self == worker[w]
      folder_path == CurrentItem(self)
      destination_file_dir == dirname(WalkDestinationFilePath(self))
      making == ~exists(destination_file_dir)
  IN  /\ self.pc = "walk"
      /\ self.walkPos <= Len(WalkFiles(walk(folder_path)))
      /\ dstDirs' = IF making THEN dstDirs \cup MakedirsCreated(destination_file_dir)
                    ELSE dstDirs
      /\ worker' = [worker EXCEPT ![w] =
                      IF making /\ MakedirsRaises(destination_file_dir)
                      THEN FolderExcept([self EXCEPT !.num_files = @ + 1], folder_path)
                      ELSE [self EXCEPT !.num_files = @ + 1, !.pc = "walk_query"]]
      /\ UNCHANGED dstFiles
      /\ UNCHANGED_UI

\* backup_folder, line 93: the is_same_file query, outside the inner try.
BackupFolderQuery(w) ==
  LET self == worker[w]
      q == QueryOf(WalkFilePath(self), WalkDestinationFilePath(self))
  IN  /\ self.pc = "walk_query"
      /\ worker' = [worker EXCEPT ![w] =
                      IF q.result = "raise" THEN FolderExcept(self, CurrentItem(self))
                      ELSE [self EXCEPT !.pc = "walk_copy", !.query = q]]
      /\ UNCHANGED <<dstFiles, dstDirs>>
      /\ UNCHANGED_UI

\* backup_folder, lines 93-106: copy inside the inner try, or skip.
BackupFolderCopy(w) ==
  LET self == worker[w]
      folder_path == CurrentItem(self)
      file_path == WalkFilePath(self)
      destination_file_path == WalkDestinationFilePath(self)
      copying == self.query.result = "differ"
      copied == copying /\ ~Copy2Raises(file_path, destination_file_path)
      counted == IF copied THEN [self EXCEPT !.num_copied = @ + 1]
                 ELSE IF copying
                      THEN [self EXCEPT !.num_skipped = @ + 1, !.copy_raised = @ + 1]
                      ELSE [self EXCEPT !.num_skipped = @ + 1]
      \* lines 96-98, or 104-106
      r == update_progress(counted, IF copied THEN "Copied" ELSE "SkippedNoChanges",
                           file_path, NoCounts)
      \* lines 99-102: the inner except clause, entered from copy2 or from the
      \* update_progress of line 97
      inner == update_progress(IF copied THEN [r.self EXCEPT !.num_skipped = @ + 1]
                               ELSE counted,
                               "SkippedError", file_path, NoCounts)
      next(s) == [s EXCEPT !.pc = "walk", !.walkPos = @ + 1, !.query = NoQuery]
  IN  /\ self.pc = "walk_copy"
      /\ dstFiles' = IF copied THEN Copy2(dstFiles, file_path, destination_file_path)
                     ELSE dstFiles
      /\ worker' = [worker EXCEPT ![w] =
                      IF copying /\ (~copied \/ r.raised)
                      THEN (IF inner.raised THEN FolderExcept(inner.self, folder_path)
                            ELSE next(inner.self))
                      ELSE IF r.raised THEN FolderExcept(r.self, folder_path)
                      ELSE next(r.self)]
      /\ UNCHANGED dstDirs
      /\ UNCHANGED_UI

\* backup_folder, lines 108-110: the walk is over, the summary is reported
\* through update_progress.
BackupFolderSummary(w) ==
  LET self == worker[w]
      folder_path == CurrentItem(self)
      r == update_progress(self, "Summary", folder_path,
                           <<self.num_files, self.num_copied, self.num_skipped>>)
  IN  /\ self.pc = "walk"
      /\ self.walkPos > Len(WalkFiles(walk(folder_path)))
      /\ worker' = [worker EXCEPT ![w] =
                      IF r.raised THEN FolderExcept(r.self, folder_path)
                      ELSE NextItem(r.self)]
      /\ UNCHANGED <<dstFiles, dstDirs>>
      /\ UNCHANGED_UI

Step(w) ==
  \/ RunCalculate(w)
  \/ RunSkipItem(w)
  \/ BackupFileQuery(w)
  \/ BackupFileCopy(w)
  \/ BackupFolderEnter(w)
  \/ BackupFolderMakeDir(w)
  \/ BackupFolderQuery(w)
  \/ BackupFolderCopy(w)
  \/ BackupFolderSummary(w)
  \/ RunCompleted(w)

Next ==
  \/ start_backup
  \/ \E w \in Workers : Step(w)

Spec == Init /\ [][Next]_vars

\* Jobs of top-level files only: the selection holds regular files, and the
\* faults and the files already at the destination are those such a job can
\* meet.  Any number of workers may run at once.
InitFilesOnly ==
  /\ Init
  /\ \A i \in 1..Len(list_widget) : list_widget[i] \in {<<"x", "f">>, <<"y", "f">>}
  /\ \A f \in faults : f.kind = "copy" /\ f.path \in {<<"x", "f">>, <<"y", "f">>}
  /\ Present(dstFiles) \subseteq {<<"D", "f">>}

StepFilesOnly(w) ==
  \/ RunCalculate(w)
  \/ BackupFileQuery(w)
  \/ BackupFileCopy(w)
  \/ RunCompleted(w)

NextFilesOnly ==
  \/ start_backup
  \/ \E w \in Workers : StepFilesOnly(w)

SpecFilesOnly == InitFilesOnly /\ [][NextFilesOnly]_vars

\* Runs one after the other on a filesystem without faults: Backup is pressed
\* only while no worker is running, any selection, any files already at the
\* destination.
InitNoFaults == Init /\ faults = {}

start_backup_when_idle ==
  /\ \A w \in Workers : State(w) # "Running"
  /\ start_backup

NextSequential ==
  \/ start_backup_when_idle
  \/ \E w \in Workers : Step(w)

SpecSequential == InitNoFaults /\ [][NextSequential]_vars

\* ---------------------------------------------------------------- claims
Started == {w \in Workers : worker[w].pc # "idle"}
Events(w) == worker[w].events
EventIdx(w) == 1..Len(worker[w].events)
ProgressIdx(w) == {i \in EventIdx(w) : Events(w)[i].kind # "Completed"}
CompletedIdx(w) == {i \in EventIdx(w) : Events(w)[i].kind = "Completed"}
FileOutcomes == {"Copied", "SkippedNoChanges", "SkippedError"}
\* The events of worker w that name target and are of one of the kinds.
Naming(w, target, kinds) ==
  {i \in EventIdx(w) : Events(w)[i].target = target /\ Events(w)[i].kind \in kinds}
ItemIdx(w) == 1..Len(worker[w].items)
\* The items run has finished with.
DoneItems(w) ==
  {i \in ItemIdx(w) : i < worker[w].idx \/ worker[w].pc = "done"}

\* C1: every run ends by emitting completed exactly once, after its last
\* progress event; a run never ends in any other way.
C1_EveryRunCompletes ==
  \A w \in Started :
    /\ State(w) # "Crashed"
    /\ State(w) = "Running" => CompletedIdx(w) = {}
    /\ State(w) = "Completed" => CompletedIdx(w) = {Len(Events(w))}

\* C2: in a job of top-level files in which exactly one copy raised, the run
\* does not stop: it reaches Completed with one outcome per item, in item
\* order, the failure outcome for the file whose copy raised and Copied or
\* Skipped (No changes) for each other file, and completed last, once.
AllFiles(w) == \A i \in ItemIdx(w) : worker[w].items[i] \in {<<"x", "f">>, <<"y", "f">>}
C2_OneFailureDoesNotAbort ==
  \A w \in Started :
    AllFiles(w) =>
      /\ State(w) # "Crashed"
      /\ Cardinality(Naming(w, <<"x", "f">>, {"SkippedError"}) \cup
                     Naming(w, <<"y", "f">>, {"SkippedError"})) = worker[w].copy_raised
      /\ (State(w) = "Completed" /\ worker[w].copy_raised = 1) =>
           /\ Len(Events(w)) = Len(worker[w].items) + 1
           /\ CompletedIdx(w) = {Len(Events(w))}
           /\ \A i \in ItemIdx(w) :
                /\ Events(w)[i].target = worker[w].items[i]
                /\ Events(w)[i].kind \in FileOutcomes
                /\ Events(w)[i].kind = "SkippedError" =>
                     HasFault("copy", worker[w].items[i])
           /\ worker[w].processed_files = Len(worker[w].items)

\* A completed two-file job whose first file's copy raised and whose second
\* file was copied afterwards.
C2_Witness ==
  \E w \in Started :
    /\ State(w) = "Completed"
    /\ worker[w].items = << <<"x", "f">>, <<"y", "f">> >>
    /\ worker[w].copy_raised = 1
    /\ Events(w)[1].kind = "SkippedError"
    /\ Events(w)[2].kind = "Copied"

\* C3: once total_files > 0, 0 <= processed_files <= total_files and every
\* progress event carries a percent within 0..100.
C3_ProgressWithinBounds ==
  \A w \in Started :
    worker[w].total_files > 0 =>
      /\ 0 <= worker[w].processed_files
      /\ worker[w].processed_files <= worker[w].total_files
      /\ \A i \in ProgressIdx(w) : Events(w)[i].percent \in 0..100

\* C4: when completed is emitted, processed_files equals the total_files
\* computed at the start of the run (no item appears or vanishes in between;
\* stated here for the runs in which no filesystem call fails either).
C4_ProcessedEqualsTotal ==
  \A w \in Started :
    (State(w) = "Completed" /\ faults = {}) =>
      worker[w].processed_files = worker[w].total_files

\* The first run w1 completed with every file Copied or Skipped (No changes).
CleanRun(w1) ==
  /\ State(w1) = "Completed"
  /\ \A i \in ProgressIdx(w1) :
       Events(w1)[i].kind \in {"Copied", "SkippedNoChanges", "Summary"}
\* The run w2 has reported nothing but Skipped (No changes), and so copied
\* nothing.
OnlySkipped(w2) ==
  \A i \in ProgressIdx(w2) : Events(w2)[i].kind \in {"SkippedNoChanges", "Summary"}

\* C5 as stated: for every job, a run started after a run of the same job
\* completed with every file Copied or Skipped reports every file as Skipped
\* (No changes) and copies nothing.
C5_SecondRunSkipsAll ==
  \A w2 \in Started : \A w1 \in worker[w2].prior :
    (CleanRun(w1) /\ worker[w1].items = worker[w2].items) => OnlySkipped(w2)

\* The (source file, destination path) pairs of a job.
FolderTargets(dest, folder_path) ==
  {[src |-> join(e.root, <<e.file>>),
    dst |-> Resolve(FolderDestinationFilePath(dest, folder_path, e.root, e.file))] :
     e \in {WalkFiles(walk(folder_path))[k] :
              k \in 1..Len(WalkFiles(walk(folder_path)))}}
JobTargets(items, dest) ==
  UNION {IF isfile(items[i])
         THEN {[src |-> items[i], dst |-> Resolve(join(dest, basename(items[i])))]}
         ELSE IF isdir(items[i]) THEN FolderTargets(dest, items[i])
         ELSE {} : i \in 1..Len(items)}
DistinctDestinations(items, dest) ==
  \A a, b \in JobTargets(items, dest) : a.dst = b.dst => a.src = b.src

\* C5 amended: the same, for jobs in which no two different source files are
\* mapped to the same destination path.
C5_SecondRunSkipsAll_DistinctDestinations ==
  \A w2 \in Started : \A w1 \in worker[w2].prior :
    (/\ CleanRun(w1)
     /\ worker[w1].items = worker[w2].items
     /\ DistinctDestinations(worker[w2].items, worker[w2].destination_folder))
      => OnlySkipped(w2)

\* A second run of a job with a folder and a top-level file, after a first
\* run that copied, has completed with three Skipped (No changes) outcomes.
C5_Witness ==
  \E w2 \in Started : \E w1 \in worker[w2].prior :
    /\ CleanRun(w1)
    /\ worker[w1].items = worker[w2].items
    /\ worker[w2].items = << <<"d1">>, <<"x", "f">> >>
    /\ \E i \in ProgressIdx(w1) : Events(w1)[i].kind = "Copied"
    /\ State(w2) = "Completed"
    /\ Cardinality({i \in ProgressIdx(w2) : Events(w2)[i].kind = "SkippedNoChanges"}) = 3

\* The answer is_same_file must give for what it read.
ExpectedAnswer(q) ==
  IF ~q.dstExists THEN "differ"
  ELSE IF SrcMeta(q.src).mtime = q.dstMeta.mtime /\ SrcMeta(q.src).size = q.dstMeta.size
       THEN "same"
       ELSE "differ"
Answered(w) == worker[w].query.result # "none"
QueryCorrect == \A w \in Started : Answered(w) => worker[w].query.result = ExpectedAnswer(worker[w].query)
QueryPure ==
  \A w \in Workers :
    (~Answered(w) /\ worker'[w].query.result # "none") =>
      (dstFiles' = dstFiles /\ dstDirs' = dstDirs)

\* C6: is_same_file answers "copy needed" when the destination does not
\* exist, and for an existing destination answers "no copy needed" exactly
\* when modification times are equal and sizes are equal; the step that asks
\* changes no file and no directory.
C6_ChangeDetector == []QueryCorrect /\ [][QueryPure]_vars

\* A query on an existing destination with the source's modification time
\* and another size, answered "copy needed".
C6_Witness ==
  \E w \in Started :
    /\ Answered(w)
    /\ worker[w].query.dstExists
    /\ worker[w].query.dstMeta.mtime = SrcMeta(worker[w].query.src).mtime
    /\ worker[w].query.dstMeta.size # SrcMeta(worker[w].query.src).size
    /\ worker[w].query.result = "differ"

\* C7: a run whose total_files is 0 never divides by zero, and ends in
\* Completed after a progress event carrying 100.
C7_EmptyJobTerminal ==
  \A w \in Started :
    (worker[w].pc # "calc" /\ worker[w].total_files = 0) =>
      /\ ~worker[w].zerodiv
      /\ State(w) # "Crashed"
      /\ State(w) = "Completed" =>
           /\ ProgressIdx(w) # {}
           /\ \A i \in ProgressIdx(w) :
                (\A j \in ProgressIdx(w) : j <= i) => Events(w)[i].percent = 100

\* C8: an item that is neither a file nor a directory gets exactly one
\* failure event naming it once run has moved past it.
C8_MissingItemReported ==
  \A w \in Started : \A i \in DoneItems(w) :
    (~isfile(worker[w].items[i]) /\ ~isdir(worker[w].items[i])) =>
      Cardinality(Naming(w, worker[w].items[i], {"SkippedError", "SkippedFolder"})) = 1

\* C9: once run has moved past a folder item whose mirrored root exists,
\* every file of the folder has its own Copied, Skipped or failure event.
C9_FolderErrorsConfined ==
  \A w \in Started : \A i \in DoneItems(w) :
    (/\ isdir(worker[w].items[i])
     /\ Resolve(join(worker[w].destination_folder, basename(worker[w].items[i])))
          \in dstDirs) =>
      \A t \in FolderTargets(worker[w].destination_folder, worker[w].items[i]) :
        Naming(w, t.src, FileOutcomes) # {}

\* C10: at most one worker is running at any time.
C10_OneWorkerRunning ==
  Cardinality({w \in Workers : State(w) = "Running"}) <= 1

====
